---- MODULE Spec2Model ----
(***************************************************************************)
(* Model of the MKV/AVI -> MP4 converter (src/converter.py, src/utils.py,  *)
(* src/config.py): main(), VideoConverter.convert_batch / convert_video /  *)
(* build_ffmpeg_command and the stream-selection helpers of utils.py.      *)
(*                                                                         *)
(* Python values are represented as follows.                               *)
(*   - Optional values: None is <<>>, a present value x is <<x>>.          *)
(*   - Text that the program inspects (tags, file names, encoder output)   *)
(*     is a sequence of one-character strings, so that lower(), the        *)
(*     substring test "x in s", Path.stem / Path.suffix and sorted() are   *)
(*     computed and not assumed.  Text that the program only emits         *)
(*     (command arguments) is a TLA+ string built with \o and ToString.    *)
(*   - List indices are 0-based as in Python; TLA+ sequences are 1-based,  *)
(*     so element i of a Python list is s[i + 1].                          *)
(*   - Durations and clock readings are integers in tenths of a second.    *)
(***************************************************************************)
EXTENDS Integers, Sequences, FiniteSets, TLC

VARIABLES
    args,               \* argparse namespace of main()
    config,             \* the feature flags of config.py the command depends on
    pc,                 \* position in main() / convert_batch()
    exit_code,          \* <<>> while running, <<n>> once the process has exited
    uncaught,           \* TRUE when the process died of an uncaught exception
    converter,          \* <<>> or <<[crf, preset]>>: VideoConverter instance
    fs,                 \* file system: path -> "file" | "dir"
    files,              \* convert_batch: sorted list of enumerated paths
    idx,                \* convert_batch: number of files the loop has finished
    stats,              \* convert_batch: counters
    returned,           \* convert_batch returned its statistics
    calls,              \* per enumerated file: number of convert_video calls
    cv,                 \* convert_video: current step
    input_path,         \* convert_video: input path
    output_path,        \* convert_video: <<>> or <<path>>
    prober,             \* how the prober ended on the input: "none" | "ok" | exception
    probe_data,         \* <<>> or <<prober output>> of the current file
    duration,           \* convert_video: <<>> or <<tenths>>
    cmd,                \* encoder argument list
    proc,               \* encoder process: "none" | "running" | "exited"
    returncode,         \* encoder exit code, <<>> until it exited
    stdout,             \* <<>> or <<line>>: encoder output not yet consumed
    n_lines,            \* encoder output lines consumed
    now,                \* wall clock (time.time()), tenths of a second
    last_progress_time, \* convert_video: time of the last progress message
    warnings,           \* encoder lines surfaced as warnings (count)
    notified,           \* clock readings of the progress messages, oldest first
    verify_log,         \* what the verification of the output found and logged
    result,             \* <<>> or <<BOOLEAN>>: return value of convert_video
    steps,              \* steps the current conversion has run, in order
    groups,             \* get_streams_info result
    french,             \* preferred-language index per group
    mapping,            \* track order per group
    progress_info       \* <<>> or <<parse_progress result>> of a parsed line

vars == <<args, config, pc, exit_code, uncaught, converter, fs, files, idx,
          stats, returned, calls, cv, input_path, output_path, prober,
          probe_data, duration, cmd, proc, returncode, stdout, n_lines, now,
          last_progress_time,
          warnings, notified, verify_log, result, steps, groups, french,
          mapping, progress_info>>

None == <<>>
Some(x) == <<x>>
IsNone(o) == o = <<>>
Val(o) == o[1]

(***************************************************************************)
(* Characters, in code-point order (the order Python compares strings by). *)
(***************************************************************************)
Chars == <<" ", ".", "/", "0", "1", "2", "3", "4", "5", "6", "7", "8", "9",
           "=", "A", "B", "C", "D", "E", "F", "G", "H", "I", "J", "K", "L",
           "M", "N", "O", "P", "Q", "R", "S", "T", "U", "V", "W", "X", "Y",
           "Z", "_", "a", "b", "c", "d", "e", "f", "g", "h", "i", "j", "k",
           "l", "m", "n", "o", "p", "q", "r", "s", "t", "u", "v", "w", "x",
           "y", "z">>

Ord(c) == CHOOSE i \in 1..Len(Chars) : Chars[i] = c

IsUpper(c) == Ord(c) >= Ord("A") /\ Ord(c) <= Ord("Z")

\* str.lower() on one character and on a text
LowerChar(c) == IF IsUpper(c) THEN Chars[Ord(c) - Ord("A") + Ord("a")] ELSE c

Lower(s) == [i \in 1..Len(s) |-> LowerChar(s[i])]

\* Python "sub in s" on texts
Contains(s, sub) ==
    \E i \in 0..(Len(s) - Len(sub)) : SubSeq(s, i + 1, i + Len(sub)) = sub

\* the text as an emitted string
RECURSIVE Join(_)
Join(s) == IF s = <<>> THEN "" ELSE Head(s) \o Join(Tail(s))

\* concatenation of a sequence of sequences (successive cmd.extend calls)
RECURSIVE Concat(_)
Concat(ss) == IF ss = <<>> THEN <<>> ELSE Head(ss) \o Concat(Tail(ss))

\* list(range(n))
Range(n) == [i \in 1..n |-> i - 1]

\* dict.get(key, default)
Get(d, key, default) == IF key \in DOMAIN d THEN d[key] ELSE default

(***************************************************************************)
(* config.py                                                               *)
(***************************************************************************)
OUTPUT_DIR == "output"
SUPPORTED_FORMATS == {<<".", "m", "k", "v">>, <<".", "a", "v", "i">>}
VIDEO_CODEC == "libx264"
VIDEO_PRESET == "medium"
VIDEO_CRF == 23
PIXEL_FORMAT == "yuv420p"
AUDIO_CODEC == "aac"
AUDIO_BITRATE == "192k"
AUDIO_CHANNELS == 2
MOVFLAGS == "+faststart"
FRENCH_LANGUAGE_CODES ==
    {<<"f", "r", "a">>, <<"f", "r", "e">>, <<"f", "r">>,
     <<"f", "r", "e", "n", "c", "h">>}
QUALITY_PRESETS ==
    [high       |-> [crf |-> 18, preset |-> "slow"],
     balanced   |-> [crf |-> 23, preset |-> "medium"],
     compressed |-> [crf |-> 28, preset |-> "fast"]]
USE_GPU_ACCELERATION == FALSE
GPU_ENCODER == "h264_videotoolbox"
INCLUDE_SUBTITLES == TRUE
SUBTITLE_CODEC == "mov_text"
OUTPUT_SUFFIX == <<"_", "c", "o", "n", "v", "e", "r", "t", "e", "d">>

\* the flags as config.py ships them
DefaultConfig ==
    [USE_GPU_ACCELERATION |-> USE_GPU_ACCELERATION,
     INCLUDE_SUBTITLES    |-> INCLUDE_SUBTITLES]

(***************************************************************************)
(* utils.py: stream classification and preferred-language selection        *)
(***************************************************************************)
\* stream.get('tags', {}).get(key, '')
TagOf(stream, key) == Get(Get(stream, "tags", <<>>), key, <<>>)

\* any(fr_code in text for fr_code in config.FRENCH_LANGUAGE_CODES)
MatchesFrench(text) == \E fr_code \in FRENCH_LANGUAGE_CODES : Contains(text, fr_code)

\* the streams of one codec type, in their original order
StreamsOfType(streams, type) ==
    SelectSeq(streams, LAMBDA s : Get(s, "codec_type", "") = type)

get_streams_info(pd) ==
    LET streams == Get(pd, "streams", <<>>)
    IN  [video    |-> StreamsOfType(streams, "video"),
         audio    |-> StreamsOfType(streams, "audio"),
         subtitle |-> StreamsOfType(streams, "subtitle")]

\* ScanAudio with the title test left out
RECURSIVE ScanAudio_LanguageOnly(_, _)
ScanAudio_LanguageOnly(audio_streams, i) ==
    IF i >= Len(audio_streams) THEN None
    ELSE IF MatchesFrench(Lower(TagOf(audio_streams[i + 1], "language")))
    THEN Some(i)
    ELSE ScanAudio_LanguageOnly(audio_streams, i + 1)

\* the for loop of find_french_audio_stream, entered at list index i
RECURSIVE ScanAudio(_, _)
ScanAudio(audio_streams, i) ==
    IF i >= Len(audio_streams) THEN None
    ELSE LET stream   == audio_streams[i + 1]
             language == Lower(TagOf(stream, "language"))
             title    == Lower(TagOf(stream, "title"))
         IN  IF MatchesFrench(language) THEN Some(i)
             ELSE IF MatchesFrench(title) THEN Some(i)
             ELSE ScanAudio(audio_streams, i + 1)

find_french_audio_stream(audio_streams) == ScanAudio(audio_streams, 0)

\* the for loop of find_french_subtitle_stream, entered at list index i
RECURSIVE ScanSubtitle(_, _)
ScanSubtitle(subtitle_streams, i) ==
    IF i >= Len(subtitle_streams) THEN None
    ELSE LET stream   == subtitle_streams[i + 1]
             language == Lower(TagOf(stream, "language"))
             title    == Lower(TagOf(stream, "title"))
         IN  IF MatchesFrench(language) THEN Some(i)
             ELSE IF MatchesFrench(title) THEN Some(i)
             ELSE ScanSubtitle(subtitle_streams, i + 1)

find_french_subtitle_stream(subtitle_streams) == ScanSubtitle(subtitle_streams, 0)

\* get_audio_mapping exchanging the French stream with stream 0
get_audio_mapping_Swap(audio_streams) ==
    IF audio_streams = <<>> THEN <<>>
    ELSE LET french_idx == find_french_audio_stream(audio_streams)
         IN  IF IsNone(french_idx) THEN Range(Len(audio_streams))
             ELSE [k \in 1..Len(audio_streams) |->
                      IF k = 1 THEN Val(french_idx)
                      ELSE IF k - 1 = Val(french_idx) THEN 0 ELSE k - 1]

get_audio_mapping(audio_streams) ==
    IF audio_streams = <<>> THEN <<>>
    ELSE LET french_idx == find_french_audio_stream(audio_streams)
         IN  IF IsNone(french_idx) THEN Range(Len(audio_streams))
             ELSE <<Val(french_idx)>> \o
                  SelectSeq(Range(Len(audio_streams)),
                            LAMBDA i : i # Val(french_idx))

\* build_ffmpeg_command, "Build subtitle mapping (French first if available)"
subtitle_mapping(subtitle_streams) ==
    LET french_sub_idx == find_french_subtitle_stream(subtitle_streams)
    IN  IF ~IsNone(french_sub_idx)
        THEN <<Val(french_sub_idx)>> \o
             SelectSeq(Range(Len(subtitle_streams)),
                       LAMBDA i : i # Val(french_sub_idx))
        ELSE Range(Len(subtitle_streams))

(***************************************************************************)
(* converter.py: VideoConverter.build_ffmpeg_command                       *)
(***************************************************************************)
\* language / title metadata arguments of one mapped track; kind is "a" or "s"
MetadataArgs(kind, stream, output_idx) ==
    LET language == TagOf(stream, "language")
        title    == TagOf(stream, "title")
        key      == "-metadata:s:" \o kind \o ":" \o ToString(output_idx)
    IN  (IF language # <<>> THEN <<key, "language=" \o Join(language)>> ELSE <<>>)
        \o (IF title # <<>> THEN <<key, "title=" \o Join(title)>> ELSE <<>>)

\* "Video encoding settings"
VideoCodecArgs(self, cfg) ==
    IF cfg.USE_GPU_ACCELERATION
    THEN <<"-c:v", GPU_ENCODER>>
    ELSE <<"-c:v", VIDEO_CODEC, "-preset", self.preset, "-crf", ToString(self.crf)>>

\* AudioArgs with the metadata keyed to the input index
AudioArgs_InputKeyed(audio_streams) ==
    IF audio_streams # <<>>
    THEN LET audio_mapping == get_audio_mapping(audio_streams)
         IN  Concat([k \in 1..Len(audio_mapping) |->
                        <<"-map", "0:a:" \o ToString(audio_mapping[k])>>])
             \o <<"-disposition:a:0", "default">>
             \o Concat([k \in 1..Len(audio_mapping) |->
                        MetadataArgs("a", audio_streams[audio_mapping[k] + 1],
                                     audio_mapping[k])])
    ELSE <<>>

\* "Map audio streams with French first"
AudioArgs(audio_streams) ==
    IF audio_streams # <<>>
    THEN LET audio_mapping == get_audio_mapping(audio_streams)
         IN  Concat([k \in 1..Len(audio_mapping) |->
                        <<"-map", "0:a:" \o ToString(audio_mapping[k])>>])
             \o <<"-disposition:a:0", "default">>
             \o Concat([k \in 1..Len(audio_mapping) |->
                        MetadataArgs("a", audio_streams[audio_mapping[k] + 1], k - 1)])
    ELSE <<>>

\* SubtitleArgs mapping the subtitle streams whatever the feature flag says
SubtitleArgs_IgnoreFlag(subtitle_streams, cfg) ==
    IF subtitle_streams # <<>>
    THEN LET sub_mapping == subtitle_mapping(subtitle_streams)
         IN  Concat([k \in 1..Len(sub_mapping) |->
                        <<"-map", "0:s:" \o ToString(sub_mapping[k]),
                          "-c:s", SUBTITLE_CODEC>>
                        \o (IF k - 1 = 0 THEN <<"-disposition:s:0", "default">>
                            ELSE <<>>)
                        \o MetadataArgs("s", subtitle_streams[sub_mapping[k] + 1], k - 1)])
    ELSE <<>>

\* "Map subtitles if enabled"
SubtitleArgs(subtitle_streams, cfg) ==
    IF cfg.INCLUDE_SUBTITLES /\ subtitle_streams # <<>>
    THEN LET sub_mapping == subtitle_mapping(subtitle_streams)
         IN  Concat([k \in 1..Len(sub_mapping) |->
                        <<"-map", "0:s:" \o ToString(sub_mapping[k]),
                          "-c:s", SUBTITLE_CODEC>>
                        \o (IF k - 1 = 0 THEN <<"-disposition:s:0", "default">>
                            ELSE <<>>)
                        \o MetadataArgs("s", subtitle_streams[sub_mapping[k] + 1], k - 1)])
    ELSE <<>>

build_ffmpeg_command(self, cfg, input, output, pd) ==
    LET info == get_streams_info(pd)
    IN  <<"ffmpeg", "-i", input>>
        \o VideoCodecArgs(self, cfg)
        \o <<"-pix_fmt", PIXEL_FORMAT>>
        \o <<"-c:a", AUDIO_CODEC, "-b:a", AUDIO_BITRATE, "-ac", ToString(AUDIO_CHANNELS)>>
        \o (IF info.video # <<>> THEN <<"-map", "0:v:0">> ELSE <<>>)
        \o AudioArgs(info.audio)
        \o SubtitleArgs(info.subtitle, cfg)
        \o <<"-movflags", MOVFLAGS, "-map_metadata", "0", "-y", output>>

(***************************************************************************)
(* Paths.  A path is [dir, name]; name is a text, and the directory itself *)
(* is the path with the empty name.                                        *)
(***************************************************************************)
Path(dir, name) == [dir |-> dir, name |-> name]

PathStr(p) == p.dir \o "/" \o Join(p.name)

\* position of the last "." of the name, 0 when there is none
LastDot(name) ==
    IF \E i \in 1..Len(name) : name[i] = "."
    THEN CHOOSE i \in 1..Len(name) :
             name[i] = "." /\ \A j \in (i + 1)..Len(name) : name[j] # "."
    ELSE 0

\* pathlib: the suffix starts at the last dot, unless that dot opens or ends the name
HasSuffix(name) == LastDot(name) > 1 /\ LastDot(name) < Len(name)

\* Path(p).suffix
Suffix(name) == IF HasSuffix(name) THEN SubSeq(name, LastDot(name), Len(name)) ELSE <<>>

\* Path(p).stem
Stem(name) == IF HasSuffix(name) THEN SubSeq(name, 1, LastDot(name) - 1) ELSE name

\* f"{input_file.stem}{config.OUTPUT_SUFFIX}.mp4"
OutputName(name) == Stem(name) \o OUTPUT_SUFFIX \o <<".", "m", "p", "4">>

\* Python's < on str, by code point
RECURSIVE StrLess(_, _)
StrLess(a, b) ==
    IF b = <<>> THEN FALSE
    ELSE IF a = <<>> THEN TRUE
    ELSE IF Head(a) = Head(b) THEN StrLess(Tail(a), Tail(b))
    ELSE Ord(Head(a)) < Ord(Head(b))

\* sorted(files): all paths of one listing share the directory prefix
RECURSIVE SortedPaths(_)
SortedPaths(S) ==
    IF S = {} THEN <<>>
    ELSE LET first == CHOOSE p \in S : \A q \in S \ {p} : StrLess(p.name, q.name)
         IN  <<first>> \o SortedPaths(S \ {first})

\* os.path.exists / os.path.isfile on a file-system state
Exists(f, p) == p \in DOMAIN f

IsFile(f, p) == p \in DOMAIN f /\ f[p] = "file"

(***************************************************************************)
(* utils.py: files                                                         *)
(***************************************************************************)
list_files_in_directory(f, directory) ==
    IF ~Exists(f, Path(directory, <<>>)) THEN <<>>
    ELSE SortedPaths({p \in DOMAIN f :
                         /\ p.dir = directory
                         /\ p.name # <<>>
                         /\ IsFile(f, p)
                         /\ Lower(Suffix(p.name)) \in SUPPORTED_FORMATS})

\* validate_input_file without the test of the extension
validate_input_file_NoExtCheck(f, p) ==
    IF ~Exists(f, p) THEN FALSE
    ELSE IF ~IsFile(f, p) THEN FALSE
    ELSE TRUE

validate_input_file(f, p) ==
    IF ~Exists(f, p) THEN FALSE
    ELSE IF ~IsFile(f, p) THEN FALSE
    ELSE IF Lower(Suffix(p.name)) \notin SUPPORTED_FORMATS THEN FALSE
    ELSE TRUE

\* generate_output_path(input_path) as convert_video calls it (no output_path)
generate_output_path(p) == Path(OUTPUT_DIR, OutputName(p.name))

is_already_converted(f, p, output_dir) ==
    LET dir == IF IsNone(output_dir) THEN OUTPUT_DIR ELSE Val(output_dir)
    IN  Exists(f, Path(dir, OutputName(p.name)))

get_video_duration(pd) ==
    LET d == Get(Get(pd, "format", <<>>), "duration", None)
    IN  IF ~IsNone(d) THEN d ELSE None

\* Python truth value of an Optional[float]
Truthy(d) == ~IsNone(d) /\ Val(d) # 0

(***************************************************************************)
(* converter.py: VideoConverter.parse_progress.  A line is its recognised  *)
(* fields (each optional) and its remaining text; quotients are floored.   *)
(***************************************************************************)
Min(a, b) == IF a <= b THEN a ELSE b

\* parse_progress without the cap of the percentage at 100
parse_progress_NoCap(line, dur) ==
    IF ~IsNone(line.time)
    THEN LET current_time == Val(line.time)
             fps   == IF ~IsNone(line.fps) THEN Val(line.fps) ELSE 0
             frame == IF ~IsNone(line.frame) THEN Val(line.frame) ELSE 0
             info  == [current_time |-> current_time, fps |-> fps, frame |-> frame]
         IN  IF Truthy(dur) /\ Val(dur) > 0
             THEN LET pct == [percentage |-> (current_time * 100) \div Val(dur)]
                  IN  IF fps > 0
                      THEN Some(info @@ pct @@
                                [eta |-> Some((Val(dur) - current_time) \div fps)])
                      ELSE Some(info @@ pct)
             ELSE Some(info @@ [percentage |-> 0, eta |-> None])
    ELSE None

parse_progress(line, dur) ==
    IF ~IsNone(line.time)
    THEN LET current_time == Val(line.time)
             fps   == IF ~IsNone(line.fps) THEN Val(line.fps) ELSE 0
             frame == IF ~IsNone(line.frame) THEN Val(line.frame) ELSE 0
             info  == [current_time |-> current_time, fps |-> fps, frame |-> frame]
         IN  IF Truthy(dur) /\ Val(dur) > 0
             THEN LET pct == [percentage |->
                                 Min(100, (current_time * 100) \div Val(dur))]
                  IN  IF fps > 0
                      THEN Some(info @@ pct @@
                                [eta |-> Some((Val(dur) - current_time) \div fps)])
                      ELSE Some(info @@ pct)
             ELSE Some(info @@ [percentage |-> 0, eta |-> None])
    ELSE None

(***************************************************************************)
(* utils.py: probe_file.  The prober is an external process; `outcome` is  *)
(* what running it produced.  probe_file turns a non-zero exit             *)
(* (CalledProcessError) and unparseable output (JSONDecodeError) into      *)
(* RuntimeError, and lets every other exception of subprocess.run (OSError:*)
(* the ffprobe executable is missing or cannot be started) through.        *)
(***************************************************************************)
probe_file(outcome) ==
    IF outcome.kind = "ok" THEN [raised |-> None, data |-> outcome.data]
    ELSE IF outcome.kind = "CalledProcessError"
    THEN [raised |-> Some("RuntimeError"), data |-> None]
    ELSE IF outcome.kind = "JSONDecodeError"
    THEN [raised |-> Some("RuntimeError"), data |-> None]
    ELSE [raised |-> Some(outcome.kind), data |-> None]

(***************************************************************************)
(* Bounds and the inputs drawn from the environment                        *)
(***************************************************************************)
MaxFiles == 2
MaxLines == 2
MaxStreams == 3
StartClock == 100

\* converter.py: "if current_time - last_progress_time >= 2" (seconds)
ProgressInterval == 20
\* converter.py: "if duration_diff > 1.0"
DurationTolerance == 10

\* wall-clock time that passes before a line of encoder output arrives
Ticks == {0, ProgressInterval - 1, ProgressInterval}

T_a_avi == <<"a", ".", "a", "v", "i">>
T_a_MKV == <<"a", ".", "M", "K", "V">>
T_movie_mkv == <<"m", "o", "v", "i", "e", ".", "m", "k", "v">>
T_n_txt == <<"n", ".", "t", "x", "t">>
T_d_mkv == <<"d", ".", "m", "k", "v">>
T_custom_mp4 == <<"x", ".", "m", "p", "4">>

VideoNames == {T_a_avi, T_a_MKV, T_movie_mkv}

T_eng == <<"e", "n", "g">>
T_fra == <<"f", "r", "a">>
T_FRE == <<"F", "R", "E">>
T_afr == <<"a", "f", "r">>
T_und == <<"u", "n", "d">>
T_VF_French == <<"V", "F", " ", "F", "r", "e", "n", "c", "h">>
T_Commentary == <<"C", "o", "m", "m", "e", "n", "t", "a", "r", "y">>

\* tag dictionaries a prober may report for a stream
AudioTagSamples ==
    {[language |-> T_eng],
     [language |-> T_fra],
     [language |-> T_FRE, title |-> T_Commentary],
     [language |-> T_und, title |-> T_VF_French],
     [language |-> T_afr]}

SubtitleTagSamples ==
    {[language |-> T_eng],
     [language |-> T_FRE, title |-> T_Commentary],
     [title |-> T_VF_French]}

StreamSamples ==
    {[codec_type |-> "video"], [codec_type |-> "data"], [codec_type |-> "audio"]}
    \cup {[codec_type |-> "audio", tags |-> t] : t \in AudioTagSamples}
    \cup {[codec_type |-> "subtitle", tags |-> t] : t \in SubtitleTagSamples}

\* every stream list of at most n streams
RECURSIVE StreamLists(_)
StreamLists(n) ==
    IF n = 0 THEN {<<>>}
    ELSE LET shorter == StreamLists(n - 1)
         IN  shorter \cup {Append(l, s) : l \in {x \in shorter : Len(x) = n - 1},
                                            s \in StreamSamples}

\* prober output for the files of a run
ProbeSamples ==
    {[streams |-> <<[codec_type |-> "video"],
                    [codec_type |-> "audio", tags |-> [language |-> T_eng]],
                    [codec_type |-> "audio", tags |-> [language |-> T_fra]]>>,
      format  |-> [duration |-> Some(1300)]],
     [streams |-> <<[codec_type |-> "audio"]>>,
      format  |-> [bit_rate |-> Some(1)]]}

ProbeOutcomes ==
    {[kind |-> "ok", data |-> pd] : pd \in ProbeSamples}
    \cup {[kind |-> k, data |-> None] :
             k \in {"CalledProcessError", "JSONDecodeError", "OSError"}}

\* prober output for a converted file, or a failure of any kind
VerifyOutcomes ==
    {[kind |-> "ok", data |-> [streams |-> <<>>, format |-> f]] :
        f \in {[bit_rate |-> Some(1)], [duration |-> Some(1300)],
               [duration |-> Some(1300 + DurationTolerance)],
               [duration |-> Some(1300 + DurationTolerance + 1)]}}
    \cup {[kind |-> k, data |-> None] : k \in {"CalledProcessError", "OSError"}}

T_Error_text == <<"E", "r", "r", "o", "r", " ", "d", "e", "c">>
T_INVALID_text == <<"I", "N", "V", "A", "L", "I", "D">>
T_plain_text == <<"S", "t", "r", "e", "a", "m">>

\* lines of encoder output
LineSamples ==
    {[time |-> Some(650), fps |-> Some(45), frame |-> Some(123), text |-> <<>>],
     [time |-> None, fps |-> None, frame |-> None, text |-> T_plain_text],
     [time |-> None, fps |-> None, frame |-> None, text |-> T_Error_text],
     [time |-> None, fps |-> None, frame |-> None, text |-> T_INVALID_text]}

\* status lines: every combination of a present / absent time=, fps= and
\* frame= field, with a time before, at and after the end of the video
ProgressLineSamples ==
    {[time |-> t, fps |-> f, frame |-> n, text |-> <<>>] :
        t \in {None, Some(0), Some(650), Some(1300), Some(2000)},
        f \in {None, Some(0), Some(45)},
        n \in {None, Some(123)}}

\* total duration as convert_video passes it: unknown, zero, negative, known
DurationSamples == {None, Some(0), Some(-5), Some(1300)}

\* --crf / --preset / --quality as given on the command line
QualityArgs ==
    {[quality |-> q, crf |-> c, preset |-> p] :
        q \in {None, Some("high"), Some("balanced"), Some("compressed")},
        c \in {None, Some(0), Some(30)},
        p \in {None, Some("veryslow")}}

\* no quality option given
QualityArgsFew == {[quality |-> None, crf |-> None, preset |-> None]}

ModeArgsFew ==
    {[input |-> None, output |-> None, input_dir |-> Some("input"),
      output_dir |-> None, no_skip_existing |-> FALSE],
     [input |-> Some(Path("input", T_movie_mkv)), output |-> None,
      input_dir |-> None, output_dir |-> None, no_skip_existing |-> FALSE],
     [input |-> None, output |-> None, input_dir |-> None,
      output_dir |-> None, no_skip_existing |-> FALSE]}

ModeArgs ==
    {[input |-> None, output |-> None, input_dir |-> Some("input"),
      output_dir |-> od, no_skip_existing |-> b] :
        od \in {None, Some("input")}, b \in BOOLEAN}
    \cup {[input |-> Some(Path("input", n)), output |-> o, input_dir |-> None,
           output_dir |-> None, no_skip_existing |-> FALSE] :
             n \in {T_a_avi, T_n_txt, T_d_mkv, T_movie_mkv},
             o \in {None, Some(Path(OUTPUT_DIR, T_custom_mp4))}}
    \cup {[input |-> None, output |-> None, input_dir |-> None,
           output_dir |-> None, no_skip_existing |-> FALSE]}

\* a file system: the input directory with `videos`, a text file and a
\* sub-directory, and the converted files `outs` in directory `outdir`
MkFs(videos, outs, outdir) ==
    LET dirs  == {Path("input", <<>>), Path("input", T_d_mkv)}
                 \cup (IF outs = {} THEN {} ELSE {Path(outdir, <<>>)})
        plain == {Path("input", T_n_txt)}
                 \cup {Path("input", v) : v \in videos}
                 \cup {Path(outdir, o) : o \in outs}
    IN  [p \in dirs \cup plain |-> IF p \in dirs THEN "dir" ELSE "file"]

\* the output directory main() passes to convert_batch
OutputDirOf(a) == IF ~IsNone(a.output_dir) THEN Val(a.output_dir) ELSE OUTPUT_DIR

\* batch mode: every input directory of at most MaxFiles videos, with any
\* of their converted files already present, and the missing input
\* directory; single file mode: one video, converted already or not
FsSamples(a) ==
    IF ~IsNone(a.input_dir)
    THEN {MkFs(videos, outs, OutputDirOf(a)) :
             videos \in {v \in SUBSET VideoNames : Cardinality(v) <= MaxFiles},
             outs \in SUBSET {OutputName(v) : v \in VideoNames}}
         \cup {<<>>}
    ELSE {MkFs({T_a_avi}, outs, OUTPUT_DIR) : outs \in {{}, {OutputName(T_a_avi)}}}

(***************************************************************************)
(* State machine                                                           *)
(***************************************************************************)
batchVars == <<files, idx, stats, returned, calls>>

cvVars == <<cv, input_path, output_path, prober, probe_data, duration, cmd,
            proc, returncode, stdout, n_lines, now, last_progress_time,
            warnings, notified, verify_log, result, steps>>

pureVars == <<groups, french, mapping, progress_info>>

NoPath == Path("", <<>>)

\* verify_log before the verification has run
NotVerified == [probe |-> "none", output_duration |-> None, level |-> "none",
                message |-> ""]

IdleConversion ==
    /\ cv = "idle"
    /\ input_path = NoPath
    /\ output_path = None
    /\ prober = "none"
    /\ probe_data = None
    /\ duration = None
    /\ cmd = <<>>
    /\ proc = "none"
    /\ returncode = None
    /\ stdout = None
    /\ n_lines = 0
    /\ now = StartClock
    /\ last_progress_time = 0
    /\ warnings = 0
    /\ notified = <<>>
    /\ verify_log = NotVerified
    /\ result = None
    /\ steps = <<>>

InitCommon ==
    /\ config = DefaultConfig
    /\ pc = "check_ffmpeg"
    /\ exit_code = None
    /\ uncaught = FALSE
    /\ converter = None
    /\ files = <<>>
    /\ idx = 0
    /\ stats = [total |-> 0, success |-> 0, failed |-> 0, skipped |-> 0]
    /\ returned = FALSE
    /\ calls = <<>>
    /\ IdleConversion
    /\ groups = None
    /\ french = None
    /\ mapping = None
    /\ progress_info = None

Init ==
    /\ args \in {m @@ q : m \in ModeArgs, q \in QualityArgsFew}
    /\ fs \in FsSamples(args)
    /\ InitCommon

\* every combination of the quality options, on a small file system
InitQuality ==
    /\ args \in {m @@ q : m \in ModeArgsFew, q \in QualityArgs}
    /\ fs \in {MkFs({T_movie_mkv}, outs, OutputDirOf(args)) :
                  outs \in {{}, {OutputName(T_movie_mkv)}}}
    /\ InitCommon

\* sys.exit(code), or the end of main() with code 0
Exit(code) ==
    /\ pc' = "exited"
    /\ exit_code' = Some(code)

\* main: "Check FFmpeg availability"
CheckFFmpeg ==
    /\ pc = "check_ffmpeg"
    /\ \E available \in BOOLEAN :
          IF available
          THEN pc' = "create_converter" /\ exit_code' = exit_code
          ELSE Exit(1)
    /\ UNCHANGED <<args, config, uncaught, converter, fs, batchVars, cvVars, pureVars>>

\* ApplyQualityPreset letting a supplied --crf / --preset win over the bundle
ApplyQualityPreset_SuppliedWins(a) ==
    IF ~IsNone(a.quality)
    THEN LET preset_config == QUALITY_PRESETS[Val(a.quality)]
         IN  [crf    |-> IF IsNone(a.crf) THEN Some(preset_config.crf) ELSE a.crf,
              preset |-> IF IsNone(a.preset) THEN Some(preset_config.preset)
                         ELSE a.preset]
    ELSE [crf |-> a.crf, preset |-> a.preset]

\* main: "Apply quality preset if specified"
ApplyQualityPreset(a) ==
    IF ~IsNone(a.quality)
    THEN LET preset_config == QUALITY_PRESETS[Val(a.quality)]
         IN  [crf |-> Some(preset_config.crf), preset |-> Some(preset_config.preset)]
    ELSE [crf |-> a.crf, preset |-> a.preset]

\* VideoConverter.__init__
VideoConverterInit(crf, preset) ==
    [crf    |-> IF ~IsNone(crf) THEN Val(crf) ELSE VIDEO_CRF,
     preset |-> IF ~IsNone(preset) THEN Val(preset) ELSE VIDEO_PRESET]

\* main: "Create converter"
CreateConverter ==
    /\ pc = "create_converter"
    /\ LET q == ApplyQualityPreset(args)
       IN  converter' = Some(VideoConverterInit(q.crf, q.preset))
    /\ pc' = "dispatch"
    /\ UNCHANGED <<args, config, exit_code, uncaught, fs, batchVars, cvVars, pureVars>>

\* entry of convert_video(inp, out)
BeginConversion(inp, out) ==
    /\ cv' = "Validating"
    /\ input_path' = inp
    /\ output_path' = out
    /\ prober' = "none"
    /\ probe_data' = None
    /\ duration' = None
    /\ cmd' = <<>>
    /\ proc' = "none"
    /\ returncode' = None
    /\ stdout' = None
    /\ n_lines' = 0
    /\ now' = StartClock
    /\ last_progress_time' = 0
    /\ warnings' = 0
    /\ notified' = <<>>
    /\ verify_log' = NotVerified
    /\ result' = None
    /\ steps' = <<>>

\* os.makedirs(dir, exist_ok=True)
MakeDirs(f, dir) ==
    IF Exists(f, Path(dir, <<>>)) THEN f ELSE (Path(dir, <<>>) :> "dir") @@ f

\* main: batch mode, up to the first iteration of convert_batch
StartBatch ==
    /\ pc = "dispatch"
    /\ ~IsNone(args.input_dir)
    /\ LET output_dir == OutputDirOf(args)
           listed     == list_files_in_directory(MakeDirs(fs, output_dir),
                                                 Val(args.input_dir))
       IN  /\ fs' = MakeDirs(fs, output_dir)
           /\ files' = listed
           /\ calls' = [i \in 1..Len(listed) |-> 0]
           /\ stats' = [total |-> Len(listed), success |-> 0, failed |-> 0,
                        skipped |-> 0]
           /\ returned' = (listed = <<>>)
           /\ pc' = IF listed = <<>> THEN "batch_done" ELSE "batch_loop"
    /\ UNCHANGED <<args, config, exit_code, uncaught, converter, idx, cvVars, pureVars>>

\* main: single file mode, call of convert_video
StartSingle ==
    /\ pc = "dispatch"
    /\ IsNone(args.input_dir)
    /\ ~IsNone(args.input)
    /\ BeginConversion(Val(args.input), args.output)
    /\ pc' = "single"
    /\ UNCHANGED <<args, config, exit_code, uncaught, converter, fs, batchVars, pureVars>>

\* main: neither --input nor --input-dir
NoMode ==
    /\ pc = "dispatch"
    /\ IsNone(args.input_dir)
    /\ IsNone(args.input)
    /\ Exit(1)
    /\ UNCHANGED <<args, config, uncaught, converter, fs, batchVars, cvVars, pureVars>>

skip_existing == ~args.no_skip_existing

\* BatchSkip passing over the file without counting it
BatchSkip_Uncounted ==
    /\ pc = "batch_loop"
    /\ idx < Len(files)
    /\ skip_existing /\ is_already_converted(fs, files[idx + 1], Some(OutputDirOf(args)))
    /\ idx' = idx + 1
    /\ UNCHANGED <<args, config, pc, exit_code, uncaught, converter, fs, files,
                   stats, returned, calls, cvVars, pureVars>>

\* convert_batch: "Skipping (already converted)"
BatchSkip ==
    /\ pc = "batch_loop"
    /\ idx < Len(files)
    /\ skip_existing /\ is_already_converted(fs, files[idx + 1], Some(OutputDirOf(args)))
    /\ stats' = [stats EXCEPT !.skipped = @ + 1]
    /\ idx' = idx + 1
    /\ UNCHANGED <<args, config, pc, exit_code, uncaught, converter, fs, files,
                   returned, calls, cvVars, pureVars>>

\* convert_batch: "Generate output path" and the call of convert_video
BatchConvert ==
    /\ pc = "batch_loop"
    /\ idx < Len(files)
    /\ ~(skip_existing /\ is_already_converted(fs, files[idx + 1], Some(OutputDirOf(args))))
    /\ LET file_path == files[idx + 1]
           out       == Path(OutputDirOf(args), OutputName(file_path.name))
       IN  BeginConversion(file_path, Some(out))
    /\ calls' = [calls EXCEPT ![idx + 1] = @ + 1]
    /\ pc' = "batch_convert"
    /\ UNCHANGED <<args, config, exit_code, uncaught, converter, fs, files, idx,
                   stats, returned, pureVars>>

\* the locals of a finished convert_video call go out of scope
EndConversion ==
    /\ cv' = "idle"
    /\ input_path' = NoPath
    /\ output_path' = None
    /\ prober' = "none"
    /\ probe_data' = None
    /\ duration' = None
    /\ cmd' = <<>>
    /\ proc' = "none"
    /\ returncode' = None
    /\ stdout' = None
    /\ n_lines' = 0
    /\ now' = StartClock
    /\ last_progress_time' = 0
    /\ warnings' = 0
    /\ notified' = <<>>
    /\ verify_log' = NotVerified
    /\ steps' = <<>>

\* convert_batch: the result of convert_video is counted
BatchCount ==
    /\ pc = "batch_convert"
    /\ cv = "Done"
    /\ stats' = IF Val(result) THEN [stats EXCEPT !.success = @ + 1]
                ELSE [stats EXCEPT !.failed = @ + 1]
    /\ idx' = idx + 1
    /\ pc' = "batch_loop"
    /\ EndConversion
    /\ result' = None
    /\ UNCHANGED <<args, config, exit_code, uncaught, converter, fs, files,
                   returned, calls, pureVars>>

\* convert_batch: summary and "return stats"
BatchReturn ==
    /\ pc = "batch_loop"
    /\ idx = Len(files)
    /\ returned' = TRUE
    /\ pc' = "batch_done"
    /\ UNCHANGED <<args, config, exit_code, uncaught, converter, fs, files, idx,
                   stats, calls, cvVars, pureVars>>

\* main: "if stats['failed'] > 0: sys.exit(1)", else "All done!"
BatchExit ==
    /\ pc = "batch_done"
    /\ IF stats.failed > 0 THEN Exit(1) ELSE Exit(0)
    /\ UNCHANGED <<args, config, uncaught, converter, fs, batchVars, cvVars, pureVars>>

\* main: "if not success: sys.exit(1)", else "All done!"
SingleExit ==
    /\ pc = "single"
    /\ cv = "Done"
    /\ IF ~Val(result) THEN Exit(1) ELSE Exit(0)
    /\ EndConversion
    /\ UNCHANGED <<args, config, uncaught, converter, fs, batchVars, result, pureVars>>

(***************************************************************************)
(* VideoConverter.convert_video, one action per step                       *)
(***************************************************************************)
\* "return False" / "return True"
Return(value) ==
    /\ cv' = "Done"
    /\ result' = Some(value)

\* "Validate input" and "Generate output path"
Validate ==
    /\ cv = "Validating"
    /\ steps' = Append(steps, "validate")
    /\ IF ~validate_input_file(fs, input_path)
       THEN /\ Return(FALSE)
            /\ UNCHANGED <<output_path, fs>>
       ELSE /\ cv' = "Probing"
            /\ result' = result
            /\ IF IsNone(output_path)
               THEN /\ output_path' = Some(generate_output_path(input_path))
                    /\ fs' = MakeDirs(fs, OUTPUT_DIR)
               ELSE UNCHANGED <<output_path, fs>>
    /\ UNCHANGED <<args, config, pc, exit_code, uncaught, converter, batchVars,
                   input_path, prober, probe_data, duration, cmd, proc,
                   returncode, stdout, n_lines, now, last_progress_time,
                   warnings, notified, verify_log, pureVars>>

\* "Probe input file": only RuntimeError is caught; any other exception
\* leaves convert_video, convert_batch and main, and ends the process
\* (an uncaught exception ends the interpreter with exit status 1)
ProbeInput ==
    /\ cv = "Probing"
    /\ steps' = Append(steps, "probe")
    /\ \E outcome \in ProbeOutcomes :
          LET r == probe_file(outcome)
          IN  /\ prober' = outcome.kind
              /\ IF IsNone(r.raised)
                 THEN /\ probe_data' = Some(r.data)
                      /\ duration' = get_video_duration(r.data)
                      /\ cv' = "BuildingCommand"
                      /\ UNCHANGED <<result, pc, exit_code, uncaught>>
                 ELSE IF Val(r.raised) = "RuntimeError"
                 THEN /\ Return(FALSE)
                      /\ UNCHANGED <<probe_data, duration, pc, exit_code, uncaught>>
                 ELSE /\ cv' = "Raised"
                      /\ uncaught' = TRUE
                      /\ Exit(1)
                      /\ UNCHANGED <<probe_data, duration, result>>
    /\ UNCHANGED <<args, config, converter, fs, batchVars, input_path,
                   output_path, cmd, proc, returncode, stdout, n_lines, now,
                   last_progress_time, warnings, notified, verify_log, pureVars>>

\* "Build FFmpeg command"
BuildCommand ==
    /\ cv = "BuildingCommand"
    /\ steps' = Append(steps, "build")
    /\ cmd' = build_ffmpeg_command(Val(converter), config, PathStr(input_path),
                                   PathStr(Val(output_path)), Val(probe_data))
    /\ cv' = "Encoding"
    /\ UNCHANGED <<args, config, pc, exit_code, uncaught, converter, fs, batchVars,
                   input_path, output_path, prober, probe_data, duration, proc,
                   returncode, stdout, n_lines, now, last_progress_time,
                   warnings, notified, verify_log, result, pureVars>>

\* subprocess.Popen(cmd, ...): an exception is caught by "except Exception"
SpawnEncoder ==
    /\ cv = "Encoding"
    /\ proc = "none"
    /\ \E started \in BOOLEAN :
          IF started
          THEN /\ proc' = "running"
               /\ steps' = Append(steps, "spawn")
               /\ last_progress_time' = 0
               /\ UNCHANGED <<cv, result>>
          ELSE /\ Return(FALSE)
               /\ steps' = Append(steps, "spawn_error")
               /\ UNCHANGED <<proc, last_progress_time>>
    /\ UNCHANGED <<args, config, pc, exit_code, uncaught, converter, fs, batchVars,
                   input_path, output_path, prober, probe_data, duration, cmd,
                   returncode, stdout, n_lines, now, warnings, notified,
                   verify_log, pureVars>>

\* the encoder process writes one line to its output stream
EncoderWrites ==
    /\ proc = "running"
    /\ cv = "Encoding"
    /\ stdout = None
    /\ n_lines < MaxLines
    /\ \E line \in LineSamples : stdout' = Some(line)
    /\ UNCHANGED <<args, config, pc, exit_code, uncaught, converter, fs, batchVars,
                   cv, input_path, output_path, prober, probe_data, duration,
                   cmd, proc, returncode, n_lines, now, last_progress_time,
                   warnings, notified, verify_log, result, steps, pureVars>>

T_error == <<"e", "r", "r", "o", "r">>
T_invalid == <<"i", "n", "v", "a", "l", "i", "d">>

\* "if 'error' in line.lower() or 'invalid' in line.lower()"
IsWarningLine(line) ==
    Contains(Lower(line.text), T_error) \/ Contains(Lower(line.text), T_invalid)

\* ReadLine reporting every progress line, whatever the time since the last
ReadLine_NoRateLimit ==
    /\ cv = "Encoding"
    /\ proc = "running"
    /\ ~IsNone(stdout)
    /\ \E tick \in Ticks :
          LET line         == Val(stdout)
              progress     == parse_progress(line, duration)
              current_time == now + tick
              notify       == ~IsNone(progress)
          IN  /\ now' = current_time
              /\ notified' = IF notify THEN Append(notified, current_time) ELSE notified
              /\ last_progress_time' = IF notify THEN current_time
                                       ELSE last_progress_time
              /\ warnings' = IF IsWarningLine(line) THEN warnings + 1 ELSE warnings
    /\ stdout' = None
    /\ n_lines' = n_lines + 1
    /\ UNCHANGED <<args, config, pc, exit_code, uncaught, converter, fs, batchVars,
                   cv, input_path, output_path, prober, probe_data, duration,
                   cmd, proc, returncode, verify_log, result, steps, pureVars>>

\* ReadLine leaving the loop with a failure on a line the warning test matches
ReadLine_AbortOnError ==
    /\ cv = "Encoding"
    /\ proc = "running"
    /\ ~IsNone(stdout)
    /\ \E tick \in Ticks :
          LET line         == Val(stdout)
              progress     == parse_progress(line, duration)
              current_time == now + tick
              notify       == /\ ~IsNone(progress)
                              /\ current_time - last_progress_time >= ProgressInterval
          IN  /\ now' = current_time
              /\ notified' = IF notify THEN Append(notified, current_time) ELSE notified
              /\ last_progress_time' = IF notify THEN current_time
                                       ELSE last_progress_time
              /\ warnings' = IF IsWarningLine(line) THEN warnings + 1 ELSE warnings
              /\ IF IsWarningLine(line)
                 THEN Return(FALSE)
                 ELSE UNCHANGED <<cv, result>>
    /\ stdout' = None
    /\ n_lines' = n_lines + 1
    /\ UNCHANGED <<args, config, pc, exit_code, uncaught, converter, fs, batchVars,
                   input_path, output_path, prober, probe_data, duration,
                   cmd, proc, returncode, verify_log, steps, pureVars>>

\* one iteration of "for line in process.stdout"; `tick` is the wall-clock
\* time that has passed since the previous reading of the clock
ReadLine ==
    /\ cv = "Encoding"
    /\ proc = "running"
    /\ ~IsNone(stdout)
    /\ \E tick \in Ticks :
          LET line         == Val(stdout)
              progress     == parse_progress(line, duration)
              current_time == now + tick
              notify       == /\ ~IsNone(progress)
                              /\ current_time - last_progress_time >= ProgressInterval
          IN  /\ now' = current_time
              /\ notified' = IF notify THEN Append(notified, current_time) ELSE notified
              /\ last_progress_time' = IF notify THEN current_time
                                       ELSE last_progress_time
              /\ warnings' = IF IsWarningLine(line) THEN warnings + 1 ELSE warnings
    /\ stdout' = None
    /\ n_lines' = n_lines + 1
    /\ UNCHANGED <<args, config, pc, exit_code, uncaught, converter, fs, batchVars,
                   cv, input_path, output_path, prober, probe_data, duration,
                   cmd, proc, returncode, verify_log, result, steps, pureVars>>

\* an exception while reading the encoder's output: "except Exception"
ReadRaises ==
    /\ cv = "Encoding"
    /\ proc = "running"
    /\ Return(FALSE)
    /\ UNCHANGED <<args, config, pc, exit_code, uncaught, converter, fs, batchVars,
                   input_path, output_path, prober, probe_data, duration, cmd,
                   proc, returncode, stdout, n_lines, now, last_progress_time,
                   warnings, notified, verify_log, steps, pureVars>>

\* end of the encoder's output, process.wait() and the return code test;
\* the encoder may or may not have written the output file
EncoderExit ==
    /\ cv = "Encoding"
    /\ proc = "running"
    /\ stdout = None
    /\ \E rc \in {0, 1}, wrote \in BOOLEAN :
          /\ returncode' = Some(rc)
          /\ fs' = IF wrote THEN (Val(output_path) :> "file") @@ fs ELSE fs
          /\ IF rc # 0
             THEN Return(FALSE)
             ELSE cv' = "Verifying" /\ result' = result
    /\ proc' = "exited"
    /\ UNCHANGED <<args, config, pc, exit_code, uncaught, converter, batchVars,
                   input_path, output_path, prober, probe_data, duration, cmd,
                   stdout, n_lines, now, last_progress_time, warnings, notified,
                   verify_log, steps, pureVars>>

Abs(x) == IF x < 0 THEN -x ELSE x

\* "Verify output file integrity": what the try block finds and logs
Verification(outcome, dur) ==
    LET r == probe_file(outcome)
    IN  IF ~IsNone(r.raised)
        THEN [probe |-> outcome.kind, output_duration |-> None,
              level |-> "warning", message |-> "Could not verify output file"]
        ELSE LET output_duration == get_video_duration(r.data)
             IN  IF Truthy(output_duration) /\ Truthy(dur)
                 THEN IF Abs(Val(output_duration) - Val(dur)) > DurationTolerance
                      THEN [probe |-> "ok", output_duration |-> output_duration,
                            level |-> "warning", message |-> "Duration mismatch"]
                      ELSE [probe |-> "ok", output_duration |-> output_duration,
                            level |-> "info",
                            message |-> "Duration verification passed"]
                 ELSE [probe |-> "ok", output_duration |-> output_duration,
                       level |-> "none", message |-> ""]

\* VerifyOutput with the verification as a gate: anything it warns about
\* makes the conversion fail
VerifyOutput_Strict ==
    /\ cv = "Verifying"
    /\ steps' = Append(steps, "verify")
    /\ IF ~Exists(fs, Val(output_path))
       THEN /\ Return(FALSE)
            /\ verify_log' = verify_log
       ELSE /\ \E outcome \in VerifyOutcomes :
                  /\ verify_log' = Verification(outcome, duration)
                  /\ Return(Verification(outcome, duration).level # "warning")
    /\ UNCHANGED <<args, config, pc, exit_code, uncaught, converter, fs, batchVars,
                   input_path, output_path, prober, probe_data, duration, cmd,
                   proc, returncode, stdout, n_lines, now, last_progress_time,
                   warnings, notified, pureVars>>

\* "Check output file" and "Verify output file integrity"
VerifyOutput ==
    /\ cv = "Verifying"
    /\ steps' = Append(steps, "verify")
    /\ IF ~Exists(fs, Val(output_path))
       THEN /\ Return(FALSE)
            /\ verify_log' = verify_log
       ELSE /\ \E outcome \in VerifyOutcomes :
                  verify_log' = Verification(outcome, duration)
            /\ Return(TRUE)
    /\ UNCHANGED <<args, config, pc, exit_code, uncaught, converter, fs, batchVars,
                   input_path, output_path, prober, probe_data, duration, cmd,
                   proc, returncode, stdout, n_lines, now, last_progress_time,
                   warnings, notified, pureVars>>

Next ==
    \/ CheckFFmpeg
    \/ CreateConverter
    \/ StartBatch
    \/ StartSingle
    \/ NoMode
    \/ BatchSkip
    \/ BatchConvert
    \/ BatchCount
    \/ BatchReturn
    \/ BatchExit
    \/ SingleExit
    \/ Validate
    \/ ProbeInput
    \/ BuildCommand
    \/ SpawnEncoder
    \/ EncoderWrites
    \/ ReadLine
    \/ ReadRaises
    \/ EncoderExit
    \/ VerifyOutput

Spec == Init /\ [][Next]_vars

SpecQuality == InitQuality /\ [][Next]_vars

(***************************************************************************)
(* The command synthesis on its own: build_ffmpeg_command and the helpers  *)
(* it calls, applied to every prober output of at most MaxStreams streams, *)
(* under every setting of the two feature flags of config.py.              *)
(***************************************************************************)
ConfigSamples ==
    {[USE_GPU_ACCELERATION |-> g, INCLUDE_SUBTITLES |-> i] :
        g \in BOOLEAN, i \in BOOLEAN} \ {[USE_GPU_ACCELERATION |-> TRUE,
                                          INCLUDE_SUBTITLES |-> FALSE]}

CmdInput == Path("input", T_movie_mkv)

InitCmd ==
    /\ args = [input |-> Some(CmdInput), output |-> None, input_dir |-> None,
               output_dir |-> None, no_skip_existing |-> FALSE,
               quality |-> None, crf |-> None, preset |-> None]
    /\ config \in ConfigSamples
    /\ pc = "classify"
    /\ exit_code = None
    /\ uncaught = FALSE
    /\ converter = Some(VideoConverterInit(None, None))
    /\ fs = MkFs({T_movie_mkv}, {}, OUTPUT_DIR)
    /\ files = <<>>
    /\ idx = 0
    /\ stats = [total |-> 0, success |-> 0, failed |-> 0, skipped |-> 0]
    /\ returned = FALSE
    /\ calls = <<>>
    /\ cv = "BuildingCommand"
    /\ input_path = CmdInput
    /\ output_path = Some(generate_output_path(CmdInput))
    /\ prober = "ok"
    /\ probe_data \in {Some([streams |-> l, format |-> [duration |-> Some(1300)]]) :
                          l \in StreamLists(MaxStreams)}
    /\ duration = Some(1300)
    /\ cmd = <<>>
    /\ proc = "none"
    /\ returncode = None
    /\ stdout = None
    /\ n_lines = 0
    /\ now = StartClock
    /\ last_progress_time = 0
    /\ warnings = 0
    /\ notified = <<>>
    /\ verify_log = NotVerified
    /\ result = None
    /\ steps = <<"validate", "probe">>
    /\ groups = None
    /\ french = None
    /\ mapping = None
    /\ progress_info = None

\* build_ffmpeg_command: utils.get_streams_info(probe_data, self.logger)
ClassifyStreams ==
    /\ pc = "classify"
    /\ groups' = Some(get_streams_info(Val(probe_data)))
    /\ pc' = "plan"
    /\ UNCHANGED <<args, config, exit_code, uncaught, converter, fs, batchVars,
                   cvVars, french, mapping, progress_info>>

\* the preferred-language index and the track order of both groups
PlanTracks ==
    /\ pc = "plan"
    /\ LET g == Val(groups)
       IN  /\ french' = Some([audio    |-> find_french_audio_stream(g.audio),
                              subtitle |-> find_french_subtitle_stream(g.subtitle)])
           /\ mapping' = Some([audio    |-> get_audio_mapping(g.audio),
                               subtitle |-> subtitle_mapping(g.subtitle)])
    /\ pc' = "planned"
    /\ UNCHANGED <<args, config, exit_code, uncaught, converter, fs, batchVars,
                   cvVars, groups, progress_info>>

NextCmd ==
    \/ ClassifyStreams
    \/ PlanTracks
    \/ BuildCommand

SpecCmd == InitCmd /\ [][NextCmd]_vars

(***************************************************************************)
(* The command synthesis for subtitle groups: every list of at most        *)
(* MaxStreams streams drawn from tagged and untagged subtitle streams, a   *)
(* video and an audio stream, with the subtitle feature flag on and off.   *)
(***************************************************************************)
SubtitleStreamSamples ==
    {[codec_type |-> "video"],
     [codec_type |-> "audio", tags |-> [language |-> T_eng]],
     [codec_type |-> "subtitle"]}
    \cup {[codec_type |-> "subtitle", tags |-> t] : t \in SubtitleTagSamples}

RECURSIVE SubtitleStreamLists(_)
SubtitleStreamLists(n) ==
    IF n = 0 THEN {<<>>}
    ELSE LET shorter == SubtitleStreamLists(n - 1)
         IN  shorter \cup {Append(l, s) : l \in {x \in shorter : Len(x) = n - 1},
                                            s \in SubtitleStreamSamples}

InitSubtitles ==
    /\ args = [input |-> Some(CmdInput), output |-> None, input_dir |-> None,
               output_dir |-> None, no_skip_existing |-> FALSE,
               quality |-> None, crf |-> None, preset |-> None]
    /\ config \in {[USE_GPU_ACCELERATION |-> FALSE, INCLUDE_SUBTITLES |-> i] :
                     i \in BOOLEAN}
    /\ pc = "classify"
    /\ exit_code = None
    /\ uncaught = FALSE
    /\ converter = Some(VideoConverterInit(None, None))
    /\ fs = MkFs({T_movie_mkv}, {}, OUTPUT_DIR)
    /\ files = <<>>
    /\ idx = 0
    /\ stats = [total |-> 0, success |-> 0, failed |-> 0, skipped |-> 0]
    /\ returned = FALSE
    /\ calls = <<>>
    /\ cv = "BuildingCommand"
    /\ input_path = CmdInput
    /\ output_path = Some(generate_output_path(CmdInput))
    /\ prober = "ok"
    /\ probe_data \in {Some([streams |-> l, format |-> [duration |-> Some(1300)]]) :
                          l \in SubtitleStreamLists(MaxStreams)}
    /\ duration = Some(1300)
    /\ cmd = <<>>
    /\ proc = "none"
    /\ returncode = None
    /\ stdout = None
    /\ n_lines = 0
    /\ now = StartClock
    /\ last_progress_time = 0
    /\ warnings = 0
    /\ notified = <<>>
    /\ verify_log = NotVerified
    /\ result = None
    /\ steps = <<"validate", "probe">>
    /\ groups = None
    /\ french = None
    /\ mapping = None
    /\ progress_info = None

SpecSubtitles == InitSubtitles /\ [][NextCmd]_vars

(***************************************************************************)
(* parse_progress on its own, applied to every sample line under every     *)
(* sample duration.                                                        *)
(***************************************************************************)
InitProgress ==
    /\ args = [input |-> Some(CmdInput), output |-> None, input_dir |-> None,
               output_dir |-> None, no_skip_existing |-> FALSE,
               quality |-> None, crf |-> None, preset |-> None]
    /\ config = DefaultConfig
    /\ pc = "parse"
    /\ exit_code = None
    /\ uncaught = FALSE
    /\ converter = Some(VideoConverterInit(None, None))
    /\ fs = MkFs({T_movie_mkv}, {}, OUTPUT_DIR)
    /\ files = <<>>
    /\ idx = 0
    /\ stats = [total |-> 0, success |-> 0, failed |-> 0, skipped |-> 0]
    /\ returned = FALSE
    /\ calls = <<>>
    /\ cv = "Encoding"
    /\ input_path = CmdInput
    /\ output_path = Some(generate_output_path(CmdInput))
    /\ prober = "ok"
    /\ probe_data = None
    /\ duration \in DurationSamples
    /\ cmd = <<>>
    /\ proc = "running"
    /\ returncode = None
    /\ stdout \in {Some(l) : l \in ProgressLineSamples}
    /\ n_lines = 0
    /\ now = StartClock
    /\ last_progress_time = 0
    /\ warnings = 0
    /\ notified = <<>>
    /\ verify_log = NotVerified
    /\ result = None
    /\ steps = <<"validate", "probe", "build", "spawn">>
    /\ groups = None
    /\ french = None
    /\ mapping = None
    /\ progress_info = None

\* convert_video: "progress = self.parse_progress(line, duration)"
ParseLine ==
    /\ pc = "parse"
    /\ progress_info' = Some(parse_progress(Val(stdout), duration))
    /\ pc' = "parsed"
    /\ UNCHANGED <<args, config, exit_code, uncaught, converter, fs, batchVars,
                   cvVars, groups, french, mapping>>

NextProgress == ParseLine

SpecProgress == InitProgress /\ [][NextProgress]_vars

(***************************************************************************)
(* Properties                                                              *)
(***************************************************************************)
\* the process has ended after main() started a batch
BatchEnded == pc = "exited" /\ ~IsNone(args.input_dir) /\ ~IsNone(converter)

\* C1: in convert_batch one file's failure never aborts the batch: whatever
\* goes wrong while a file is processed becomes a failed result for that
\* file only, every later file of the list is still processed (converted or
\* skipped), and convert_batch returns its statistics.
C1_OneFailureNeverAbortsBatch ==
    /\ ~IsNone(args.input_dir) => ~uncaught
    /\ BatchEnded =>
          /\ returned
          /\ idx = Len(files)
          /\ stats.total = Len(files)
          /\ stats.success + stats.failed + stats.skipped = Len(files)

C2_Skipped(n) == Cardinality({i \in 1..n : calls[i] = 0})

C2_Converted(n) == Cardinality({i \in 1..n : calls[i] = 1})

C2_InBatch ==
    /\ ~IsNone(args.input_dir)
    /\ ~IsNone(converter)
    /\ pc \in {"batch_loop", "batch_convert", "batch_done", "exited"}

\* every file already passed was either skipped, or converted by one call
\* of convert_video whose result was counted once
C2_Counts ==
    C2_InBatch =>
       /\ \A i \in 1..Len(files) : calls[i] \in {0, 1}
       /\ stats.total = Len(files)
       /\ stats.skipped = C2_Skipped(idx)
       /\ stats.success + stats.failed = C2_Converted(idx)
       /\ \A i \in (idx + 1)..Len(files) :
             calls[i] = IF i = idx + 1 /\ pc \in {"batch_convert", "exited"}
                        THEN 1 ELSE 0
       /\ pc \in {"batch_done", "exited"} => idx = Len(files)

C2_OutputExists ==
    Exists(fs, Path(OutputDirOf(args),
                    Stem(files[idx + 1].name) \o
                    <<"_", "c", "o", "n", "v", "e", "r", "t", "e", "d",
                      ".", "m", "p", "4">>))

\* what convert_batch does with the file it has reached
C2_Step ==
    (C2_InBatch /\ pc = "batch_loop" /\ idx < Len(files) /\ idx' # idx) =>
       IF ~args.no_skip_existing /\ C2_OutputExists
       THEN /\ stats' = [stats EXCEPT !.skipped = @ + 1]
            /\ calls' = calls
            /\ cv' = "idle"
       ELSE FALSE

\* the file reached is handed to convert_video, and its result is counted
C2_Call ==
    /\ (C2_InBatch /\ pc = "batch_loop" /\ pc' = "batch_convert") =>
          /\ ~(~args.no_skip_existing /\ C2_OutputExists)
          /\ input_path' = files[idx + 1]
          /\ stats' = stats
    /\ (pc = "batch_convert" /\ pc' = "batch_loop") =>
          /\ idx' = idx + 1
          /\ stats' = IF result = Some(TRUE)
                      THEN [stats EXCEPT !.success = @ + 1]
                      ELSE [stats EXCEPT !.failed = @ + 1]

\* a directory holding movie.mkv and movie_converted.mp4, skip_existing true
C2_Example ==
    (/\ pc = "batch_loop"
     /\ idx = 0
     /\ ~args.no_skip_existing
     /\ args.output_dir = Some("input")
     /\ fs = MkFs({T_movie_mkv},
                  {<<"m", "o", "v", "i", "e", "_", "c", "o", "n", "v", "e", "r",
                     "t", "e", "d", ".", "m", "p", "4">>}, "input")) =>
       /\ stats' = [total |-> 1, success |-> 0, failed |-> 0, skipped |-> 1]
       /\ idx' = Len(files)

\* C2: for each enumerated file of convert_batch: if skip_existing is true
\* and {input_stem}_converted.mp4 exists in the output directory when the
\* file is reached, skipped is incremented and convert_video is not invoked
\* for it; otherwise convert_video is invoked exactly once and exactly one
\* of success / failed is incremented according to its result.  A directory
\* holding movie.mkv and movie_converted.mp4 with skip_existing true yields
\* total 1, skipped 1, success 0, failed 0.
C2_SkipOrConvertOnce ==
    /\ []C2_Counts
    /\ [][C2_Step /\ C2_Call /\ C2_Example]_vars

\* C3: the process exit code is non-zero if any file in scope failed: in
\* batch mode after the whole batch has been processed, in single-file mode
\* after the failed conversion; a run in which every file in scope succeeded
\* or was skipped ends after "All done!" with exit code zero.
C3_ExitCode ==
    (pc = "exited" /\ ~IsNone(converter)) =>
       IF ~IsNone(args.input_dir)
       THEN /\ (stats.failed > 0 \/ uncaught) =>
                  /\ exit_code # Some(0)
                  /\ returned
                  /\ idx = Len(files)
            /\ (stats.failed = 0 /\ ~uncaught) =>
                  /\ exit_code = Some(0)
                  /\ stats.success + stats.skipped = Len(files)
       ELSE IF ~IsNone(args.input)
       THEN /\ (result = Some(FALSE) \/ uncaught) => exit_code # Some(0)
            /\ result = Some(TRUE) => exit_code = Some(0)
       ELSE TRUE

\* the input exists, is a regular file and has a supported extension
C4_InputValid ==
    /\ input_path \in DOMAIN fs
    /\ fs[input_path] = "file"
    /\ Lower(Suffix(input_path.name)) \in {<<".", "m", "k", "v">>,
                                            <<".", "a", "v", "i">>}

C4_StepsOf ==
    [Validating      |-> {<<>>},
     Probing         |-> {<<"validate">>},
     BuildingCommand |-> {<<"validate", "probe">>},
     Encoding        |-> {<<"validate", "probe", "build">>,
                          <<"validate", "probe", "build", "spawn">>},
     Verifying       |-> {<<"validate", "probe", "build", "spawn">>},
     Raised          |-> {<<"validate", "probe">>},
     Done            |-> {<<"validate">>,
                          <<"validate", "probe">>,
                          <<"validate", "probe", "build", "spawn_error">>,
                          <<"validate", "probe", "build", "spawn">>,
                          <<"validate", "probe", "build", "spawn", "verify">>}]

\* nothing after the step that failed has run
C4_StoppedAfter(done) ==
    /\ cv = "Done"
    /\ result = Some(FALSE)
    /\ steps = done
    /\ cmd = <<>>
    /\ proc = "none"
    /\ returncode = None
    /\ verify_log = NotVerified

\* C4: a conversion goes through Validating, Probing, BuildingCommand,
\* Encoding, Verifying, Done in this order, and the encoder is spawned only
\* after validation and probing have both succeeded: an input that does not
\* exist, is not a regular file or has an unsupported extension, and a
\* prober that exits non-zero or prints unparseable output, end
\* convert_video in failure with no later step run.
C4_StepOrder ==
    cv \in DOMAIN C4_StepsOf =>
       /\ steps \in C4_StepsOf[cv]
       /\ (cv # "Validating" /\ ~C4_InputValid) =>
             C4_StoppedAfter(<<"validate">>) /\ prober = "none"
       /\ prober \in {"CalledProcessError", "JSONDecodeError"} =>
             C4_StoppedAfter(<<"validate", "probe">>) /\ probe_data = None
       /\ (proc # "none" \/ cmd # <<>>) =>
             /\ C4_InputValid
             /\ prober = "ok"
             /\ ~IsNone(probe_data)
       /\ proc # "none" => cmd # <<>>

\* the prober printed unparseable output: the conversion has failed and
\* neither a command nor an encoder process exists
C4_Witness ==
    /\ cv = "Done"
    /\ prober = "JSONDecodeError"
    /\ result = Some(FALSE)
    /\ C4_InputValid

C5_Mentions(text, word) ==
    \E i \in 0..(Len(text) - Len(word)) :
       \A j \in 1..Len(word) : Lower(text)[i + j] = word[j]

C5_IsWarning(line) ==
    \/ C5_Mentions(line.text, <<"e", "r", "r", "o", "r">>)
    \/ C5_Mentions(line.text, <<"i", "n", "v", "a", "l", "i", "d">>)

\* the return code alone decides how the Encoding step ends
C5_ExitCodeDecides ==
    /\ (cv = "Encoding" /\ proc = "running") => result = None
    /\ (~IsNone(returncode) /\ returncode # Some(0)) =>
          cv = "Done" /\ result = Some(FALSE)
    /\ returncode = Some(0) =>
          \/ cv = "Verifying" /\ result = None
          \/ cv = "Done" /\ result = Some(Val(output_path) \in DOMAIN fs)

\* reading a line only counts a warning when the line mentions an error
C5_WarningOnly ==
    (cv = "Encoding" /\ ~IsNone(stdout) /\ stdout' # stdout) =>
       /\ warnings' = warnings + IF C5_IsWarning(Val(stdout)) THEN 1 ELSE 0
       /\ n_lines' = n_lines + 1
       /\ cv' = "Encoding"
       /\ proc' = "running"
       /\ result' = None
       /\ returncode' = None

\* C5: during Encoding the encoder's exit code alone decides success or
\* failure: a non-zero exit code makes convert_video fail whatever the
\* output lines were; a line containing 'error' or 'invalid' in any letter
\* case is only a warning, never ends the read loop and never changes the
\* result of a run whose exit code is 0.
C5_ExitCodeIsAuthority ==
    /\ []C5_ExitCodeDecides
    /\ [][C5_WarningOnly]_vars

\* a run that warned about every line it read and still succeeded
C5_Witness ==
    /\ cv = "Done"
    /\ returncode = Some(0)
    /\ warnings = MaxLines
    /\ result = Some(TRUE)

C6_Known(d) == d # None /\ d # Some(0)

C6_Verified == cv = "Done" /\ steps # <<>> /\ steps[Len(steps)] = "verify"

\* the Verifying step follows exit code 0 and ends in success exactly when
\* the output file exists
C6_Advisory ==
    /\ cv = "Verifying" => returncode = Some(0)
    /\ C6_Verified =>
          /\ returncode = Some(0)
          /\ result = Some(Val(output_path) \in DOMAIN fs)
          /\ Val(output_path) \notin DOMAIN fs => verify_log = NotVerified

\* what is logged about a re-probe that failed or a duration out of tolerance
C6_Warned ==
    (C6_Verified /\ result = Some(TRUE)) =>
       /\ verify_log.probe \in {"CalledProcessError", "OSError"} =>
             /\ verify_log.level = "warning"
             /\ verify_log.message = "Could not verify output file"
       /\ (/\ verify_log.probe = "ok"
           /\ C6_Known(duration)
           /\ C6_Known(verify_log.output_duration)) =>
             IF \/ Val(verify_log.output_duration) - Val(duration) > 10
                \/ Val(duration) - Val(verify_log.output_duration) > 10
             THEN /\ verify_log.level = "warning"
                  /\ verify_log.message = "Duration mismatch"
             ELSE verify_log.level = "info"

C6_DurationUnknown ==
    /\ C6_Verified
    /\ result = Some(TRUE)
    /\ verify_log.probe = "ok"
    /\ ~(C6_Known(duration) /\ C6_Known(verify_log.output_duration))

\* C6 as amended: the Verifying step is reached only after the encoder
\* exited with code 0; convert_video fails if the output file does not exist
\* and succeeds otherwise, whatever the verification finds.  A duration
\* difference of more than 1.0 second and a failed re-probe of the output
\* are logged as warnings; when the duration of the input or of the output
\* is unknown the comparison is skipped and nothing is logged.
C6_VerificationIsAdvisory ==
    /\ C6_Advisory
    /\ C6_Warned
    /\ C6_DurationUnknown => verify_log.level = "none"

\* C6 as stated: as above, but an unknown duration is logged as a warning
C6_UnknownDurationIsWarned ==
    /\ C6_Advisory
    /\ C6_Warned
    /\ C6_DurationUnknown => verify_log.level = "warning"

\* a successful conversion whose output is more than a second longer than
\* its input
C6_Witness ==
    /\ C6_Verified
    /\ result = Some(TRUE)
    /\ verify_log.message = "Duration mismatch"
    /\ Val(verify_log.output_duration) - Val(duration) = 11

C8_Aliases ==
    {<<"f", "r", "a">>, <<"f", "r", "e">>, <<"f", "r">>,
     <<"f", "r", "e", "n", "c", "h">>}

C8_LanguageMatches(stream) ==
    \E a \in C8_Aliases : Contains(Lower(TagOf(stream, "language")), a)

C8_TitleMatches(stream) ==
    \E a \in C8_Aliases : Contains(Lower(TagOf(stream, "title")), a)

C8_First(streams) ==
    LET m == {i \in 0..(Len(streams) - 1) :
                 C8_LanguageMatches(streams[i + 1]) \/ C8_TitleMatches(streams[i + 1])}
    IN  IF m = {} THEN None ELSE Some(CHOOSE i \in m : \A j \in m : i <= j)

\* C8: find_french_audio_stream and find_french_subtitle_stream return the
\* smallest index whose lower-cased language or title tag contains an alias
\* (fra, fre, fr, french) as a substring, and None when the group is empty
\* or no tag of the group contains an alias.
C8_FirstMatchingIndex ==
    ~IsNone(french) =>
        /\ Val(french).audio = C8_First(Val(groups).audio)
        /\ Val(french).subtitle = C8_First(Val(groups).subtitle)

\* three audio streams: no match, a match by title only, a match by language
C8_Witness ==
    /\ ~IsNone(french)
    /\ Len(Val(groups).audio) = 3
    /\ ~C8_LanguageMatches(Val(groups).audio[1])
    /\ ~C8_TitleMatches(Val(groups).audio[1])
    /\ ~C8_LanguageMatches(Val(groups).audio[2])
    /\ C8_TitleMatches(Val(groups).audio[2])
    /\ C8_LanguageMatches(Val(groups).audio[3])
    /\ Val(french).audio = Some(1)
    /\ Val(french).subtitle = None

C7_Order(p, N) ==
    IF IsNone(p) THEN [k \in 1..N |-> k - 1]
    ELSE [k \in 1..N |-> IF k = 1 THEN Val(p)
                         ELSE IF k - 1 <= Val(p) THEN k - 2 ELSE k - 1]

\* C7: the track order of a group of N streams is 0..N-1 when no preferred
\* stream is found, and [p] followed by the other indices in increasing
\* order when it is found at p; it is a permutation of 0..N-1 with the
\* preferred index, if any, at position 0.
C7_TrackOrder ==
    ~IsNone(mapping) =>
        \A g \in {"audio", "subtitle"} :
            LET N     == Len(Val(groups)[g])
                p     == Val(french)[g]
                order == Val(mapping)[g]
            IN  /\ order = C7_Order(p, N)
                /\ Len(order) = N
                /\ {order[k] : k \in 1..N} = 0..(N - 1)
                /\ ~IsNone(p) => order[1] = Val(p)

\* three audio streams with the preferred one last
C7_Witness ==
    /\ ~IsNone(mapping)
    /\ Val(french).audio = Some(2)
    /\ Val(mapping).audio = <<2, 0, 1>>

\* the arguments that follow each occurrence of `flag` in the command
C9_AfterFlag(c, flag) ==
    LET js == SelectSeq([j \in 1..(Len(c) - 1) |-> j], LAMBDA j : c[j] = flag)
    IN  [k \in 1..Len(js) |-> c[js[k] + 1]]

C9_TagArgs(stream) ==
    (IF TagOf(stream, "language") # <<>>
     THEN <<"language=" \o Join(TagOf(stream, "language"))>> ELSE <<>>)
    \o (IF TagOf(stream, "title") # <<>>
        THEN <<"title=" \o Join(TagOf(stream, "title"))>> ELSE <<>>)

\* the -map arguments that select neither the video nor a subtitle stream
C9_AudioMaps(c) ==
    SelectSeq(C9_AfterFlag(c, "-map"),
              LAMBDA v : v \notin ({"0:v:0"} \cup
                                   {"0:s:" \o ToString(i) : i \in 0..MaxStreams}))

\* C9: for a non-empty audio group the command maps every audio stream once,
\* in track order, marks output position 0 (and no other) as default, and
\* carries each mapped stream's non-empty language and title as
\* -metadata:s:a:k arguments keyed to the output position k.
C9_AudioArguments ==
    (cv = "Encoding" /\ cmd # <<>>) =>
        LET audio == get_streams_info(Val(probe_data)).audio
            N     == Len(audio)
            order == C7_Order(C8_First(audio), N)
        IN  N > 0 =>
              /\ C9_AudioMaps(cmd) = [k \in 1..N |-> "0:a:" \o ToString(order[k])]
              /\ C9_AfterFlag(cmd, "-disposition:a:0") = <<"default">>
              /\ \A k \in 1..MaxStreams :
                    C9_AfterFlag(cmd, "-disposition:a:" \o ToString(k)) = <<>>
              /\ \A k \in 0..(N - 1) :
                    C9_AfterFlag(cmd, "-metadata:s:a:" \o ToString(k))
                        = C9_TagArgs(audio[order[k + 1] + 1])
              /\ \A k \in N..MaxStreams :
                    C9_AfterFlag(cmd, "-metadata:s:a:" \o ToString(k)) = <<>>

\* audio streams [eng, fra]
C9_Witness ==
    /\ cv = "Encoding"
    /\ get_streams_info(Val(probe_data)).audio
           = <<[codec_type |-> "audio", tags |-> [language |-> T_eng]],
               [codec_type |-> "audio", tags |-> [language |-> T_fra]]>>
    /\ C9_AudioMaps(cmd) = <<"0:a:1", "0:a:0">>
    /\ C9_AfterFlag(cmd, "-disposition:a:0") = <<"default">>
    /\ C9_AfterFlag(cmd, "-metadata:s:a:0") = <<"language=fra">>
    /\ C9_AfterFlag(cmd, "-metadata:s:a:1") = <<"language=eng">>

C10_Expected(a) ==
    IF ~IsNone(a.quality)
    THEN CASE Val(a.quality) = "high" -> [crf |-> 18, preset |-> "slow"]
           [] Val(a.quality) = "balanced" -> [crf |-> 23, preset |-> "medium"]
           [] Val(a.quality) = "compressed" -> [crf |-> 28, preset |-> "fast"]
    ELSE [crf    |-> IF IsNone(a.crf) THEN 23 ELSE Val(a.crf),
          preset |-> IF IsNone(a.preset) THEN "medium" ELSE Val(a.preset)]

\* C10: with --quality the converter has exactly the crf and preset of the
\* named bundle, whatever --crf and --preset are passed alongside; without
\* it the supplied --crf / --preset are used, each falling back to 23 /
\* medium when omitted.  The encoder command carries the same values.
C10_QualityPresetPrecedence ==
    /\ ~IsNone(converter) => Val(converter) = C10_Expected(args)
    /\ cmd # <<>> =>
          /\ C9_AfterFlag(cmd, "-crf") = <<ToString(C10_Expected(args).crf)>>
          /\ C9_AfterFlag(cmd, "-preset") = <<C10_Expected(args).preset>>

\* --quality high together with --crf 30 --preset veryslow
C10_Witness ==
    /\ args.quality = Some("high")
    /\ args.crf = Some(30)
    /\ args.preset = Some("veryslow")
    /\ ~IsNone(converter)
    /\ Val(converter) = [crf |-> 18, preset |-> "slow"]
    /\ cmd # <<>>

C11_KnownPositive == duration # None /\ Val(duration) > 0

\* p is 100 * elapsed / total capped at 100, rounded down
C11_IsPercentage(p, elapsed, total) ==
    IF elapsed >= total THEN p = 100
    ELSE p * total <= 100 * elapsed /\ 100 * elapsed < (p + 1) * total

\* e is (total - elapsed) / fps, rounded down
C11_IsEta(e, elapsed, total, fps) ==
    e * fps <= total - elapsed /\ total - elapsed < (e + 1) * fps

C11_NoEta(rec) == "eta" \notin DOMAIN rec \/ rec.eta = None

\* C11: for a status line with a timestamp parse_progress returns a record
\* whose percentage is min(100, 100 * elapsed / duration) when the duration
\* is known and positive and 0 otherwise, so it lies in 0..100; the record
\* has an ETA of (duration - elapsed) / fps only when the duration is known
\* and positive and fps > 0, and no ETA (absent or None) otherwise.  A line
\* without a timestamp yields no record, whatever other fields it has.
C11_ParseProgress ==
    pc = "parsed" =>
       LET line == Val(stdout)
           got  == Val(progress_info)
       IN  IF line.time = None THEN got = None
           ELSE /\ got # None
                /\ Val(got).percentage \in 0..100
                /\ IF C11_KnownPositive
                   THEN C11_IsPercentage(Val(got).percentage, Val(line.time),
                                         Val(duration))
                   ELSE Val(got).percentage = 0
                /\ IF C11_KnownPositive /\ line.fps # None /\ Val(line.fps) > 0
                   THEN /\ "eta" \in DOMAIN Val(got)
                        /\ Val(got).eta # None
                        /\ C11_IsEta(Val(Val(got).eta), Val(line.time),
                                     Val(duration), Val(line.fps))
                   ELSE C11_NoEta(Val(got))

\* a line stamped after the end of the video: 100 percent and a negative ETA
C11_Witness ==
    /\ pc = "parsed"
    /\ Val(stdout).time = Some(2000)
    /\ duration = Some(1300)
    /\ Val(progress_info) # None
    /\ Val(Val(progress_info)).percentage = 100
    /\ "eta" \in DOMAIN Val(Val(progress_info))
    /\ Val(Val(progress_info)).eta = Some(-16)

\* the process ended at the availability test of main(): no converter exists
C12_EncoderMissing == pc = "exited" /\ IsNone(converter)

\* nothing of any file has been validated, probed or converted
C12_NoFileTouched ==
    /\ files = <<>>
    /\ calls = <<>>
    /\ cv = "idle"
    /\ steps = <<>>
    /\ prober = "none"
    /\ proc = "none"
    /\ result = None

\* the run went through all its files: convert_batch returned its
\* statistics, or the one convert_video call of single file mode returned
C12_RanToTheEnd ==
    IF ~IsNone(args.input_dir) THEN returned /\ idx = Len(files)
    ELSE IF ~IsNone(args.input) THEN result # None
    ELSE TRUE

\* C12: a missing encoder executable at startup aborts the whole invocation
\* with a non-zero exit code before any file is validated, probed or
\* converted, and it is the only globally fatal condition: every other error
\* that arises while files are processed is fatal to that one file only.
C12_OnlyMissingEncoderIsFatal ==
    /\ C12_EncoderMissing => exit_code = Some(1) /\ C12_NoFileTouched
    /\ (pc \notin {"check_ffmpeg", "exited"}) => exit_code = None
    /\ ~uncaught
    /\ (pc = "exited" /\ ~C12_EncoderMissing) => C12_RanToTheEnd

\* the -map arguments that select a subtitle stream
C13_SubtitleMaps(c) ==
    SelectSeq(C9_AfterFlag(c, "-map"),
              LAMBDA v : v \in {"0:s:" \o ToString(i) : i \in 0..MaxStreams})

\* the same sequence of language / title tags, as a group of audio streams
C13_AsAudio(streams) ==
    [k \in 1..Len(streams) |-> [streams[k] EXCEPT !.codec_type = "audio"]]

\* C13: build_ffmpeg_command maps subtitle streams if and only if the
\* subtitle feature flag is enabled and the subtitle group is non-empty;
\* the subtitle handling is then the audio handling applied to the same
\* sequence of language / title tags: same track order, every stream mapped
\* exactly once, output position 0 (and no other) marked default, non-empty
\* language / title tags emitted as -metadata:s:s:k keyed to the output
\* position k.
C13_SubtitlesAsAudio ==
    (cv = "Encoding" /\ cmd # <<>>) =>
        LET subtitle == get_streams_info(Val(probe_data)).subtitle
            N        == Len(subtitle)
            as_audio == AudioArgs(C13_AsAudio(subtitle))
            order    == get_audio_mapping(C13_AsAudio(subtitle))
        IN  IF config.INCLUDE_SUBTITLES /\ N > 0
            THEN /\ order = C7_Order(C8_First(subtitle), N)
                 /\ C13_SubtitleMaps(cmd)
                       = [k \in 1..N |-> "0:s:" \o ToString(order[k])]
                 /\ C9_AfterFlag(as_audio, "-map")
                       = [k \in 1..N |-> "0:a:" \o ToString(order[k])]
                 /\ \A k \in 0..MaxStreams :
                       /\ C9_AfterFlag(cmd, "-disposition:s:" \o ToString(k))
                             = C9_AfterFlag(as_audio, "-disposition:a:" \o ToString(k))
                       /\ C9_AfterFlag(cmd, "-disposition:s:" \o ToString(k))
                             = IF k = 0 THEN <<"default">> ELSE <<>>
                       /\ C9_AfterFlag(cmd, "-metadata:s:s:" \o ToString(k))
                             = C9_AfterFlag(as_audio, "-metadata:s:a:" \o ToString(k))
                       /\ C9_AfterFlag(cmd, "-metadata:s:s:" \o ToString(k))
                             = IF k < N THEN C9_TagArgs(subtitle[order[k + 1] + 1])
                               ELSE <<>>
            ELSE /\ C13_SubtitleMaps(cmd) = <<>>
                 /\ C9_AfterFlag(cmd, "-c:s") = <<>>
                 /\ \A k \in 0..MaxStreams :
                       /\ C9_AfterFlag(cmd, "-disposition:s:" \o ToString(k)) = <<>>
                       /\ C9_AfterFlag(cmd, "-metadata:s:s:" \o ToString(k)) = <<>>

\* subtitle streams [eng, FRE "Commentary"] with the feature flag enabled
C13_Witness ==
    /\ cv = "Encoding"
    /\ config.INCLUDE_SUBTITLES
    /\ get_streams_info(Val(probe_data)).subtitle
           = <<[codec_type |-> "subtitle", tags |-> [language |-> T_eng]],
               [codec_type |-> "subtitle",
                tags |-> [language |-> T_FRE, title |-> T_Commentary]]>>
    /\ C13_SubtitleMaps(cmd) = <<"0:s:1", "0:s:0">>
    /\ C9_AfterFlag(cmd, "-disposition:s:0") = <<"default">>
    /\ C9_AfterFlag(cmd, "-metadata:s:s:0") = <<"language=FRE", "title=Commentary">>
    /\ C9_AfterFlag(cmd, "-metadata:s:s:1") = <<"language=eng">>

\* consecutive progress notifications of the conversion in progress are at
\* least 2 seconds (20 tenths) apart, and there is at most one per line read
C14_Spaced ==
    /\ \A i \in 1..(Len(notified) - 1) : notified[i + 1] - notified[i] >= 20
    /\ Len(notified) <= n_lines

\* a line of encoder output is consumed by this step
C14_LineRead == cv = "Encoding" /\ stdout # None /\ stdout' = None

C14_Step ==
    /\ Len(notified') > Len(notified) =>
          /\ C14_LineRead
          /\ Val(stdout).time # None
          /\ notified' = Append(notified, now')
          /\ notified # <<>> => now' - notified[Len(notified)] >= 20
    /\ (C14_LineRead /\ notified # <<>> /\ now' - notified[Len(notified)] < 20) =>
          notified' = notified
    /\ (C14_LineRead /\ Val(stdout).time = None) => notified' = notified

\* C14: while the encoder's output is consumed, progress notifications are
\* rate-limited: for any sequence of lines and any non-decreasing clock
\* readings, two consecutive notifications of one conversion are at least
\* 2 seconds apart, a notification is emitted only for a line that parses
\* to a progress record, and a line arriving less than 2 seconds after the
\* last notification produces none.
C14_ProgressRateLimit ==
    /\ []C14_Spaced
    /\ [][C14_Step]_vars

\* two notifications exactly 2 seconds apart
C14_Witness ==
    /\ cv = "Encoding"
    /\ Len(notified) = 2
    /\ notified[2] - notified[1] = 20

C15_Sum(st) == st.success + st.failed + st.skipped

\* the counters while convert_batch runs and after it returned; idx is the
\* number of files the loop has finished
C15_Counters ==
    C2_InBatch =>
       /\ stats.total = Len(files)
       /\ \A c \in {"success", "failed", "skipped"} : stats[c] \in 0..Len(files)
       /\ C15_Sum(stats) = idx
       /\ C15_Sum(stats) <= stats.total
       /\ returned => C15_Sum(stats) = stats.total

\* total never changes, no counter decreases, and the counters move only
\* when a file is finished: then exactly one of them grows, by exactly 1
C15_Step ==
    (C2_InBatch /\ C2_InBatch') =>
       /\ stats'.total = stats.total
       /\ files' = files
       /\ \A c \in {"success", "failed", "skipped"} : stats'[c] >= stats[c]
       /\ IF idx' # idx
          THEN /\ idx' = idx + 1
               /\ Cardinality({c \in {"success", "failed", "skipped"} :
                                  stats'[c] = stats[c] + 1}) = 1
               /\ C15_Sum(stats') = C15_Sum(stats) + 1
          ELSE stats' = stats

\* C15: throughout convert_batch, total equals the number of enumerated
\* files and never changes; success, failed and skipped only ever increase;
\* each processed file increments exactly one of them by exactly 1; their
\* sum equals the number of files processed so far, so it never exceeds
\* total; and when convert_batch returns the sum equals total.
C15_BatchStatistics ==
    /\ []C15_Counters
    /\ [][C15_Step]_vars

\* convert_batch returned after one file failed and the other was skipped
C15_Witness ==
    /\ C2_InBatch
    /\ returned
    /\ stats = [total |-> 2, success |-> 0, failed |-> 1, skipped |-> 1]

\* the output path convert_batch derives for the i-th enumerated file
C16_OutputOf(i) ==
    Path(OutputDirOf(args),
         Stem(files[i].name) \o <<"_", "c", "o", "n", "v", "e", "r", "t", "e", "d",
                                  ".", "m", "p", "4">>)

C16_DistinctOutputs ==
    \A i, j \in 1..Len(files) : i # j => C16_OutputOf(i) # C16_OutputOf(j)

\* With skip_existing true a file is converted only if its output did not
\* exist when it was reached, and outputs are never removed; so a skipped
\* file whose output path is that of a file converted earlier in the same
\* batch had no output when the batch started.
C16_SkippedExistedBefore ==
    \A i \in 1..idx :
       calls[i] = 0 =>
          ~\E j \in 1..(i - 1) : calls[j] = 1 /\ C16_OutputOf(j) = C16_OutputOf(i)

\* C16: in a convert_batch run with skip_existing true a file is counted as
\* skipped only if its converted output already existed before the batch
\* started (every enumerated file whose output did not exist at batch start
\* is passed to convert_video), and no two files of the same batch are
\* directed to the same output path.
C16_SkipSoundness ==
    (C2_InBatch /\ ~args.no_skip_existing) =>
       /\ C16_SkippedExistedBefore
       /\ C16_DistinctOutputs

====
